---- MODULE Spec2Model ----
(***************************************************************************)
(* Model of iot_data_testing.py: five data-quality rules over a table of   *)
(* sensor readings, the report aggregator, and main's fixed sequence.      *)
(*                                                                         *)
(* Numbers.  Temperatures and humidities are real numbers in the program.  *)
(* The model holds them as integers in tenths (25.5 degrees is 255, the    *)
(* bound 50 is 500, 100 percent is 1000).  A cell is <<v>> when a value is *)
(* present and <<>> when it is None / NaN.  The mean and the standard       *)
(* deviation are exact here.  The program computes them in binary floating *)
(* point and agrees with the exact comparison wherever |t - mean| and      *)
(* 2 * std differ by more than rounding error.  Where the two are equal in *)
(* the reals (five present temperatures, four of them alike) the model     *)
(* takes the exact answer, not an outlier; there the program's answer      *)
(* rests on the rounding of its sums.                                      *)
(***************************************************************************)
EXTENDS Integers, Sequences, FiniteSets

VARIABLES
    sensor_data,  \* the module-level dict of columns (lines 12-19)
    df,           \* main's DataFrame (line 144)
    pc,           \* the call main makes next
    results,      \* main's list of rule results (lines 147-152)
    ret,          \* the rule called last and the value it returned
    report,       \* what generate_report computed and printed
    trace         \* the calls made so far, in order

vars == <<sensor_data, df, pc, results, ret, report, trace>>

----------------------------------------------------------------------------
\* Cells

\* None in the dict, NaN in the DataFrame: pandas stores None of a numeric
\* column as NaN, and isnull() is true of both.
NaN == <<>>

Some(v) == <<v>>

isnull(x) == x = NaN

\* Comparisons of a float cell with a number: every comparison with NaN is False.
CellLt(x, k) == ~isnull(x) /\ x[1] < k

CellGt(x, k) == ~isnull(x) /\ x[1] > k

----------------------------------------------------------------------------
\* The built-in data set (tenths)

SensorIds == <<"S001", "S002", "S003", "S004", "S005", "S006", "S007", "S008">>

Timestamps ==
    <<"2025-01-15 10:00", "2025-01-15 10:05", "2025-01-15 10:10",
      "2025-01-15 10:15", "2025-01-15 10:20", "2025-01-15 10:25",
      "2025-01-15 10:30", "2025-01-15 10:35">>

SensorData ==
    [sensor_id   |-> SensorIds,
     temperature |-> <<Some(255), Some(283), NaN, Some(1500), Some(221),
                       Some(-500), Some(302), Some(268)>>,
     humidity    |-> <<Some(600), Some(650), Some(700), Some(550), NaN,
                       Some(800), Some(620), Some(680)>>,
     timestamp   |-> Timestamps]

----------------------------------------------------------------------------
\* Bounds of the explored inputs

MaxLen == 2

MaxTemps == 6

MaxHums == 3

MaxResults == 6

MaxCalls == 2

\* Cell values of the explored tables: each side of every range bound, the
\* bounds themselves, and an absent cell.
RangeTemps == {NaN, Some(-1), Some(0), Some(500), Some(501)}

RangeHums == {NaN, Some(-1), Some(0), Some(1000), Some(1001)}

Ids == {"S001", "S002"}

IdTemps == {NaN, Some(255), Some(501)}

StatTemps == {NaN, Some(0), Some(10), Some(500)}

Table(ids, temps, hums) ==
    [sensor_id   |-> ids,
     temperature |-> temps,
     humidity    |-> hums,
     timestamp   |-> SubSeq(Timestamps, 1, Len(ids))]

DefaultIds(n) == SubSeq(SensorIds, 1, n)

DefaultHums(n) == [i \in 1..n |-> Some(600)]

\* The built-in data set with one cell replaced.
PerturbedInputs ==
    {[SensorData EXCEPT !.temperature[k] = v] :
        k \in 1..Len(SensorIds), v \in RangeTemps}
    \cup {[SensorData EXCEPT !.humidity[k] = v] :
              k \in 1..Len(SensorIds), v \in RangeHums}
    \cup {[SensorData EXCEPT !.sensor_id[k] = v] : k \in 1..Len(SensorIds), v \in Ids}

\* The explored values of sensor_data: the built-in data set, its one-cell
\* variations, short tables over the range values, short tables with repeated
\* identifiers, and longer temperature and humidity columns.
InitData ==
    \/ sensor_data = SensorData
    \/ sensor_data \in PerturbedInputs
    \/ \E n \in 0..MaxLen :
          \E t \in [1..n -> RangeTemps], h \in [1..n -> RangeHums] :
              sensor_data = Table(DefaultIds(n), t, h)
    \/ \E n \in 0..MaxLen :
          \E i \in [1..n -> Ids], t \in [1..n -> IdTemps] :
              sensor_data = Table(i, t, DefaultHums(n))
    \/ \E n \in 0..MaxTemps :
          \E t \in [1..n -> StatTemps] :
              sensor_data = Table(DefaultIds(n), t, DefaultHums(n))
    \/ \E n \in 0..MaxHums :
          \E h \in [1..n -> RangeHums] :
              sensor_data = Table(DefaultIds(n), [k \in 1..n |-> Some(255)], h)

ResultInputs == UNION {[1..n -> BOOLEAN] : n \in 0..MaxResults}

----------------------------------------------------------------------------
\* load_data: the DataFrame of the dict, column by column.

DataFrame(data) ==
    [sensor_id   |-> data.sensor_id,
     temperature |-> data.temperature,
     humidity    |-> data.humidity,
     timestamp   |-> data.timestamp]

load_data(data) == DataFrame(data)

\* len(df)
NRows(d) == Len(d.sensor_id)

\* A frame df[mask] is held as its index: the labels of the rows of df that the
\* mask selects.  len(df[mask]) is the number of labels.  What a rule prints is
\* not part of the model.

----------------------------------------------------------------------------
\* test_missing_values

\* A cell of the isnull() frame.  The string columns hold no None here.
CellIsNull(d, c, i) ==
    IF c \in {"temperature", "humidity"} THEN isnull(d[c][i]) ELSE FALSE

\* df.isnull().sum(): the count of null cells of one column.
RECURSIVE NullCount(_, _, _)
NullCount(d, c, n) ==
    IF n = 0 THEN 0
    ELSE NullCount(d, c, n - 1) + (IF CellIsNull(d, c, n) THEN 1 ELSE 0)

\* Variant: only the temperature column is counted.
MissingTotal_TemperatureOnly(d) == NullCount(d, "temperature", NRows(d))

\* missing.sum()
MissingTotal(d) ==
    NullCount(d, "sensor_id", NRows(d)) + NullCount(d, "temperature", NRows(d))
    + NullCount(d, "humidity", NRows(d)) + NullCount(d, "timestamp", NRows(d))

\* A rule gives back what it returns and the frame as the call leaves it.
test_missing_values(d) ==
    IF MissingTotal(d) > 0
    THEN [ret |-> FALSE, df |-> d]
    ELSE [ret |-> TRUE, df |-> d]

----------------------------------------------------------------------------
\* test_temperature_range, test_humidity_range

TempMin == 0

TempMax == 500

HumMin == 0

HumMax == 1000

\* Variant: the upper bound is taken as exclusive.
InvalidTemperature_ExclusiveMax(d) ==
    {i \in 1..NRows(d) :
        \/ CellLt(d.temperature[i], TempMin)
        \/ CellGt(d.temperature[i], TempMax)
        \/ d.temperature[i] = Some(TempMax)}

InvalidTemperature(d) ==
    {i \in 1..NRows(d) :
        CellLt(d.temperature[i], TempMin) \/ CellGt(d.temperature[i], TempMax)}

test_temperature_range(d) ==
    IF Cardinality(InvalidTemperature(d)) > 0
    THEN [ret |-> FALSE, df |-> d]
    ELSE [ret |-> TRUE, df |-> d]

\* Variant: the mask is the negation of "within the bounds", which NaN satisfies.
InvalidHumidity_Negated(d) ==
    {i \in 1..NRows(d) :
        ~(~CellLt(d.humidity[i], HumMin) /\ ~CellGt(d.humidity[i], HumMax)
          /\ ~isnull(d.humidity[i]))}

InvalidHumidity(d) ==
    {i \in 1..NRows(d) :
        CellLt(d.humidity[i], HumMin) \/ CellGt(d.humidity[i], HumMax)}

test_humidity_range(d) ==
    IF Cardinality(InvalidHumidity(d)) > 0
    THEN [ret |-> FALSE, df |-> d]
    ELSE [ret |-> TRUE, df |-> d]

----------------------------------------------------------------------------
\* test_duplicates

\* df.duplicated(subset=['sensor_id'], keep=False): a row is marked when another
\* row holds the same sensor_id.
\* Variant: duplicated() without subset, which compares whole rows.
Duplicated_WholeRow(d, i) ==
    \E j \in 1..NRows(d) :
        /\ j # i
        /\ d.sensor_id[j] = d.sensor_id[i]
        /\ d.temperature[j] = d.temperature[i]
        /\ d.humidity[j] = d.humidity[i]
        /\ d.timestamp[j] = d.timestamp[i]

Duplicated(d, i) ==
    \E j \in 1..NRows(d) : j # i /\ d.sensor_id[j] = d.sensor_id[i]

Duplicates(d) == {i \in 1..NRows(d) : Duplicated(d, i)}

test_duplicates(d) ==
    IF Cardinality(Duplicates(d)) > 0
    THEN [ret |-> FALSE, df |-> d]
    ELSE [ret |-> TRUE, df |-> d]

----------------------------------------------------------------------------
\* test_outliers

\* Variant: fillna(0) in place of dropna().
dropna_FillZero(col) == [i \in 1..Len(col) |-> IF isnull(col[i]) THEN Some(0) ELSE col[i]]

\* df['temperature'].dropna()
dropna(col) == SelectSeq(col, LAMBDA x : ~isnull(x))

RECURSIVE SeqSum(_)
SeqSum(xs) == IF xs = <<>> THEN 0 ELSE Head(xs)[1] + SeqSum(Tail(xs))

\* np.mean(temp_clean): the rational sum / count, NaN for an empty series.
np_mean(xs) ==
    IF Len(xs) = 0 THEN NaN ELSE [sum |-> SeqSum(xs), count |-> Len(xs)]

\* count * (x - mean), an integer
ScaledDev(x, mean) == mean.count * x[1] - mean.sum

RECURSIVE SumSqDev(_, _)
SumSqDev(xs, mean) ==
    IF xs = <<>> THEN 0
    ELSE ScaledDev(Head(xs), mean) * ScaledDev(Head(xs), mean) + SumSqDev(Tail(xs), mean)

\* Variant: the sample standard deviation (ddof = 1).
np_std_Sample(xs) ==
    IF Len(xs) = 0 THEN NaN
    ELSE [sumsq |-> SumSqDev(xs, np_mean(xs)), divisor |-> Len(xs) - 1]

\* np.std(temp_clean), the population standard deviation sqrt(mean(|x - mean|^2)),
\* NaN for an empty series.  It is irrational in general, so the model keeps the
\* exact quantity under the root: std^2 = sumsq / (count^2 * divisor), where
\* divisor = count - ddof and numpy hands the Series ddof = 0.
np_std(xs) ==
    IF Len(xs) = 0 THEN NaN
    ELSE [sumsq |-> SumSqDev(xs, np_mean(xs)), divisor |-> Len(xs)]

\* Variant: >= in place of >.
IsOutlier_AtLeast(t, mean, std) ==
    /\ ~isnull(t)
    /\ ~isnull(mean)
    /\ ~isnull(std)
    /\ std.divisor * ScaledDev(t, mean) * ScaledDev(t, mean) >= 4 * std.sumsq

\* np.abs(t - mean) > (2 * std), False when t, mean or std is NaN.  Both sides
\* are >= 0, so the comparison is that of their squares, times count^2 * divisor:
\* divisor * (count * (t - mean))^2 > 4 * sumsq.
IsOutlier(t, mean, std) ==
    /\ ~isnull(t)
    /\ ~isnull(mean)
    /\ ~isnull(std)
    /\ std.divisor * ScaledDev(t, mean) * ScaledDev(t, mean) > 4 * std.sumsq

\* lines 96-103.  mean and std are computed once (lines 97-98) and then used for
\* every row: s ranges over the one record that holds them.
Outliers(d) ==
    LET temp_clean == dropna(d.temperature)
    IN  UNION {{i \in 1..NRows(d) : IsOutlier(d.temperature[i], s.mean, s.std)} :
               s \in {[mean |-> np_mean(temp_clean), std |-> np_std(temp_clean)]}}

\* Variant: the rule fills the absent temperatures of the caller's frame.
test_outliers_FillsFrame(d) ==
    IF Cardinality(Outliers(d)) > 0
    THEN [ret |-> FALSE, df |-> [d EXCEPT !.temperature = dropna_FillZero(@)]]
    ELSE [ret |-> TRUE, df |-> [d EXCEPT !.temperature = dropna_FillZero(@)]]

test_outliers(d) ==
    IF Cardinality(Outliers(d)) > 0
    THEN [ret |-> FALSE, df |-> d]
    ELSE [ret |-> TRUE, df |-> d]

----------------------------------------------------------------------------
\* generate_report

\* sum(results): True counts 1, False 0.
RECURSIVE PySum(_)
PySum(rs) == IF rs = <<>> THEN 0 ELSE (IF Head(rs) THEN 1 ELSE 0) + PySum(Tail(rs))

GoodRate == 80

ImprovementRate == 60

\* success_rate >= k for success_rate = (passed / total_tests) * 100
RateAtLeast(passed, total_tests, k) == passed * 100 >= k * total_tests

\* "{:.1f}".format(success_rate) in tenths of a percent: the nearest tenth.  A tie
\* needs total_tests to be a multiple of 16, beyond the lists explored here.
Tenths(passed, total_tests) == (2 * 1000 * passed + total_tests) \div (2 * total_tests)

\* Variant: > in place of >= at the GOOD threshold.
Classify_StrictGood(passed, total_tests) ==
    IF passed * 100 > GoodRate * total_tests THEN "GOOD"
    ELSE IF RateAtLeast(passed, total_tests, ImprovementRate) THEN "NEEDS IMPROVEMENT"
    ELSE "POOR"

Classify(passed, total_tests) ==
    IF RateAtLeast(passed, total_tests, GoodRate) THEN "GOOD"
    ELSE IF RateAtLeast(passed, total_tests, ImprovementRate) THEN "NEEDS IMPROVEMENT"
    ELSE "POOR"

NoReport ==
    [error |-> "none", total_tests |-> -1, passed |-> -1, failed |-> -1,
     success_rate |-> <<>>, tenths |-> -1, result |-> "none"]

generate_report(rs) ==
    LET total_tests == Len(rs)
        passed == PySum(rs)
        failed == total_tests - passed
    IN  IF total_tests = 0
        THEN \* line 123 divides by zero: nothing after the header is printed
             [NoReport EXCEPT !.error = "ZeroDivisionError"]
        ELSE [error |-> "none", total_tests |-> total_tests, passed |-> passed,
              failed |-> failed, success_rate |-> <<passed * 100, total_tests>>,
              tenths |-> Tenths(passed, total_tests),
              result |-> Classify(passed, total_tests)]

----------------------------------------------------------------------------
\* The rules by name, in main's order

Rules ==
    <<"test_missing_values", "test_temperature_range", "test_humidity_range",
      "test_duplicates", "test_outliers">>

RuleNames == {Rules[i] : i \in 1..Len(Rules)}

Call(rule, d) ==
    CASE rule = "test_missing_values" -> test_missing_values(d)
      [] rule = "test_temperature_range" -> test_temperature_range(d)
      [] rule = "test_humidity_range" -> test_humidity_range(d)
      [] rule = "test_duplicates" -> test_duplicates(d)
      [] rule = "test_outliers" -> test_outliers(d)

NoRet == [rule |-> "none", value |-> FALSE]

NoFrame == Table(<<>>, <<>>, <<>>)

----------------------------------------------------------------------------
\* main

Init ==
    /\ InitData
    /\ df = NoFrame
    /\ pc = "load_data"
    /\ results = <<>>
    /\ ret = NoRet
    /\ report = NoReport
    /\ trace = <<>>

\* df = load_data(); results = []
MainLoad ==
    /\ pc = "load_data"
    /\ df' = load_data(sensor_data)
    /\ results' = <<>>
    /\ pc' = "test_missing_values"
    /\ trace' = Append(trace, "load_data")
    /\ UNCHANGED <<sensor_data, ret, report>>

\* results.append(rule(df))
MainRule(rule, next) ==
    /\ pc = rule
    /\ \E r \in {Call(rule, df)} :
           /\ df' = r.df
           /\ ret' = [rule |-> rule, value |-> r.ret]
           /\ results' = Append(results, r.ret)
    /\ pc' = next
    /\ trace' = Append(trace, rule)
    /\ UNCHANGED <<sensor_data, report>>

MainMissingValues == MainRule("test_missing_values", "test_temperature_range")

MainTemperatureRange == MainRule("test_temperature_range", "test_humidity_range")

MainHumidityRange == MainRule("test_humidity_range", "test_duplicates")

\* Variant: main goes from the duplicate rule straight to the report.
MainDuplicates_SkipsOutliers == MainRule("test_duplicates", "generate_report")

MainDuplicates == MainRule("test_duplicates", "test_outliers")

MainOutliers == MainRule("test_outliers", "generate_report")

\* generate_report(results); main returns, or the exception leaves it
MainReport ==
    /\ pc = "generate_report"
    /\ report' = generate_report(results)
    /\ pc' = IF report'.error = "none" THEN "done" ELSE "raised"
    /\ trace' = Append(trace, "generate_report")
    /\ UNCHANGED <<sensor_data, df, results, ret>>

Next ==
    \/ MainLoad
    \/ MainMissingValues
    \/ MainTemperatureRange
    \/ MainHumidityRange
    \/ MainDuplicates
    \/ MainOutliers
    \/ MainReport

Spec == Init /\ [][Next]_vars

----------------------------------------------------------------------------
\* The rules called on a loaded DataFrame by any caller, in any order, any
\* number of times.

InitRules ==
    /\ sensor_data \in {SensorData} \cup PerturbedInputs
    /\ df = load_data(sensor_data)
    /\ pc = "caller"
    /\ results = <<>>
    /\ ret = NoRet
    /\ report = NoReport
    /\ trace = <<>>

CallRule(rule) ==
    /\ pc = "caller"
    /\ Len(trace) < MaxCalls
    /\ \E r \in {Call(rule, df)} :
           /\ df' = r.df
           /\ ret' = [rule |-> rule, value |-> r.ret]
    /\ trace' = Append(trace, rule)
    /\ UNCHANGED <<sensor_data, pc, results, report>>

NextRules == \E rule \in RuleNames : CallRule(rule)

SpecRules == InitRules /\ [][NextRules]_vars

----------------------------------------------------------------------------
\* generate_report called on any list of results.

InitReport ==
    /\ sensor_data = NoFrame
    /\ df = NoFrame
    /\ pc = "generate_report"
    /\ results \in ResultInputs
    /\ ret = NoRet
    /\ report = NoReport
    /\ trace = <<>>

NextReport == MainReport

SpecReport == InitReport /\ [][NextReport]_vars

----------------------------------------------------------------------------
\* What the properties below read: the input as main was given it.

Idx == 1..Len(sensor_data.sensor_id)

PresentTemps == {i \in Idx : sensor_data.temperature[i] # NaN}

\* The sum over the rows I of the p-th power (p = 1 or 2) of the temperature.
RECURSIVE TempPowerSum(_, _)
TempPowerSum(I, p) ==
    IF I = {} THEN 0
    ELSE LET i == CHOOSE j \in I : TRUE
             t == sensor_data.temperature[i][1]
         IN  (IF p = 1 THEN t ELSE t * t) + TempPowerSum(I \ {i}, p)

\* |t - mean| > 2 * std for the mean and population std of the present
\* temperatures, from n^2 * std^2 = n * sum(t^2) - sum(t)^2.
FartherThan2Std(i) ==
    LET n == Cardinality(PresentTemps)
        S == TempPowerSum(PresentTemps, 1)
        Q == TempPowerSum(PresentTemps, 2)
        t == sensor_data.temperature[i][1]
    IN  (n * t - S) * (n * t - S) > 4 * (n * Q - S * S)

MainCalls == <<"load_data">> \o Rules \o <<"generate_report">>

----------------------------------------------------------------------------
\* C1: the missing-value rule returns false exactly when some reading has an
\* absent temperature or an absent humidity.
C1_MissingValueRule ==
    Len(results) >= 1 =>
        (results[1] = FALSE <=>
            \E i \in Idx :
                sensor_data.temperature[i] = NaN \/ sensor_data.humidity[i] = NaN)

\* The rule has failed on readings whose temperatures are all present: only a
\* humidity is absent.
C1_Witness ==
    /\ Len(results) >= 1
    /\ results[1] = FALSE
    /\ \A i \in Idx : sensor_data.temperature[i] # NaN
    /\ \E i \in Idx : sensor_data.humidity[i] = NaN

\* C2: the temperature-range rule returns false exactly when some present
\* temperature is below 0 or above 50; absent temperatures never fail it and the
\* bounds 0 and 50 pass.
C2_TemperatureRangeRule ==
    Len(results) >= 2 =>
        (results[2] = FALSE <=>
            \E i \in PresentTemps :
                sensor_data.temperature[i][1] < 0 \/ sensor_data.temperature[i][1] > 500)

\* The rule has passed readings that hold an absent temperature and both bounds.
C2_Witness ==
    /\ Len(results) >= 2
    /\ results[2] = TRUE
    /\ \E i, j, k \in Idx :
          /\ sensor_data.temperature[i] = NaN
          /\ sensor_data.temperature[j] = Some(0)
          /\ sensor_data.temperature[k] = Some(500)

\* C3: the humidity-range rule returns false exactly when some present humidity
\* is below 0 or above 100; absent humidities never fail it and the bounds 0 and
\* 100 pass.
C3_HumidityRangeRule ==
    Len(results) >= 3 =>
        (results[3] = FALSE <=>
            \E i \in Idx :
                /\ sensor_data.humidity[i] # NaN
                /\ sensor_data.humidity[i][1] < 0 \/ sensor_data.humidity[i][1] > 1000)

\* The rule has passed readings that hold an absent humidity, and the bounds.
C3_Witness ==
    /\ Len(results) >= 3
    /\ results[3] = TRUE
    /\ \E i, j, k \in Idx :
          /\ sensor_data.humidity[i] = NaN
          /\ sensor_data.humidity[j] = Some(0)
          /\ sensor_data.humidity[k] = Some(1000)

\* C4: the duplicate rule returns false exactly when some sensor identifier
\* appears twice or more, whatever the other fields hold.
C4_DuplicateRule ==
    Len(results) >= 4 =>
        (results[4] = FALSE <=>
            Cardinality({sensor_data.sensor_id[i] : i \in Idx}) < Cardinality(Idx))

\* The rule has failed on two readings of one identifier whose other fields differ.
C4_Witness ==
    /\ Len(results) >= 4
    /\ results[4] = FALSE
    /\ \E i, j \in Idx :
          /\ i # j
          /\ sensor_data.sensor_id[i] = sensor_data.sensor_id[j]
          /\ sensor_data.temperature[i] # sensor_data.temperature[j]

\* C5: the outlier rule returns false exactly when some present temperature is
\* strictly farther than 2 population standard deviations from the mean, both
\* taken over the present temperatures only.
C5_OutlierRule ==
    Len(results) >= 5 =>
        (results[5] = FALSE <=> \E i \in PresentTemps : FartherThan2Std(i))

\* The rule has failed on readings of which one has no temperature.
C5_Witness ==
    /\ Len(results) >= 5
    /\ results[5] = FALSE
    /\ PresentTemps # Idx
    /\ sensor_data # SensorData

\* C6: for a non-empty list of results the report holds total = length, passed =
\* the number of true entries, failed = total - passed, rate = passed / total x
\* 100, GOOD from 80, NEEDS IMPROVEMENT from 60 to below 80, POOR below 60;
\* 1 pass of 5 is 20.0 and POOR, 5 of 5 is 100.0 and GOOD.
C6_GenerateReport ==
    (pc # "generate_report" /\ Len(results) > 0) =>
        LET total == Len(results)
            passed == Cardinality({i \in 1..Len(results) : results[i]})
        IN  /\ pc = "done"
            /\ report.error = "none"
            /\ report.total_tests = total
            /\ report.passed = passed
            /\ report.failed = total - passed
            /\ report.success_rate[1] * total = 100 * passed * report.success_rate[2]
            /\ report.result = "GOOD" <=> 100 * passed >= 80 * total
            /\ report.result = "NEEDS IMPROVEMENT" <=>
                   (100 * passed >= 60 * total /\ 100 * passed < 80 * total)
            /\ report.result = "POOR" <=> 100 * passed < 60 * total
            /\ (total = 5 /\ passed = 1) => (report.tenths = 200 /\ report.result = "POOR")
            /\ (total = 5 /\ passed = 5) => (report.tenths = 1000 /\ report.result = "GOOD")

\* A report of exactly 80 percent has been made.
C6_Witness ==
    /\ pc = "done"
    /\ results = <<TRUE, FALSE, TRUE, TRUE, TRUE>>
    /\ report.result = "GOOD"

\* C7: whatever rules were called before, and however often, a rule returns what
\* it returns when called first and alone on the loaded data, and the data are
\* as loaded.
C7_RulesReadOnly ==
    /\ df = load_data(sensor_data)
    /\ ret.rule # "none" => ret.value = Call(ret.rule, load_data(sensor_data)).ret

\* The missing-value rule has been called after the outlier rule.
C7_Witness ==
    /\ trace = <<"test_outliers", "test_missing_values">>
    /\ ret.rule = "test_missing_values"
    /\ ret.value = FALSE

\* C8: main calls load_data, the five rules in their fixed order and
\* generate_report, each once; results holds the rules' values in that order;
\* the report is made from five results only; and main always reaches its end.
C8_MainSequence ==
    /\ Len(trace) <= Len(MainCalls)
    /\ trace = SubSeq(MainCalls, 1, Len(trace))
    /\ pc = (IF Len(trace) = Len(MainCalls) THEN "done" ELSE MainCalls[Len(trace) + 1])
    /\ Len(results) = (IF Len(trace) = 0 THEN 0
                       ELSE IF Len(trace) > Len(Rules) THEN Len(Rules)
                       ELSE Len(trace) - 1)
    /\ \A k \in 1..Len(results) : results[k] = Call(Rules[k], load_data(sensor_data)).ret
    /\ report # NoReport <=> pc = "done"
    /\ pc = "done" => (report.error = "none" /\ report.total_tests = 5)
    /\ pc = "done" \/ ENABLED Next

\* main has ended after rules that failed and rules that passed.
C8_Witness ==
    /\ pc = "done"
    /\ \E i, j \in 1..Len(results) : results[i] /\ ~results[j]

\* C9: on the built-in data set the results are False, False, True, True,
\* False: 2 passed of 5, 40 percent, POOR.
C9_BuiltInData ==
    (sensor_data = SensorData /\ pc = "done") =>
        /\ results = <<FALSE, FALSE, TRUE, TRUE, FALSE>>
        /\ report.total_tests = 5
        /\ report.passed = 2
        /\ report.failed = 3
        /\ report.success_rate[1] = 40 * report.success_rate[2]
        /\ report.tenths = 400
        /\ report.result = "POOR"

\* main has ended on the built-in data set.
C9_Witness == sensor_data = SensorData /\ pc = "done" /\ report.result = "POOR"

\* C10: with one to four present temperatures the outlier rule returns true.
C10_SmallSamplePasses ==
    (Len(results) >= 5 /\ Cardinality(PresentTemps) \in 1..4) => results[5] = TRUE

\* The rule has passed four present temperatures, three alike and one far away.
C10_Witness ==
    /\ Len(results) >= 5
    /\ results[5] = TRUE
    /\ Cardinality(PresentTemps) = 4
    /\ Cardinality({i \in PresentTemps : sensor_data.temperature[i] = Some(0)}) = 3
    /\ \E i \in PresentTemps : sensor_data.temperature[i] = Some(500)

====
